---- MODULE Spec2Model ----
(***************************************************************************)
(* Model of the LFU cache of src/src/lib.rs (LfuCache<K, V>).              *)
(*                                                                         *)
(* A LinkedVector<T> is modelled as a sequence of nodes, each node a       *)
(* record that carries its handle (HNode) next to its payload.  Handles    *)
(* are slot numbers: a push takes the smallest slot that is not in use in  *)
(* that vector, a removal frees the slot, and no operation moves a node    *)
(* to another slot.                                                        *)
(*                                                                         *)
(* `frequencies` is the sequence of frequency queues                       *)
(*      [h |-> handle, freq |-> count, keys |-> <<[h |-> handle, key]>>]   *)
(* and `map` is a function from the cached keys to value records           *)
(*      [value, hfreq, hpos].                                              *)
(***************************************************************************)
EXTENDS Integers, Sequences, FiniteSets, TLC

\* ---------------------------------------------------------------- bounds
MaxCap  == 2         \* caches of capacity 0..MaxCap are built
MaxFreq == 3         \* a key at this frequency is not accessed again
                     \* (counts are usize; freq + 1 stays far from 2^64)

\* K: Eq + Hash + Clone and V is unconstrained: the code compares keys for
\* equality only and never looks into a value.  Three keys are one more
\* than a cache of capacity 2 can hold, two values tell an overwrite apart.
Keys   == {1, 2, 3}
Values == {1, 2}
Miss   == 0          \* Option::None returned by get
NoKey  == 0          \* "no key" in the bookkeeping of the last call
NoNode == 0          \* HNode::default(), a handle that names no node

VARIABLES
    capacity,        \* LfuCache.capacity
    map,             \* LfuCache.map
    frequencies,     \* LfuCache.frequencies
    panicked,        \* a handle that names no node was dereferenced
    op,              \* the last call: its name, arguments, result, victim
    pre,             \* map, frequencies, touch, lastIns before that call
    touch,           \* the cached keys in the order of their last touch
    lastIns,         \* cached key -> value of its most recent insert
    gone,            \* the keys evicted and not inserted again since
    lostFreq,        \* key -> frequency it had when evicted (0: not gone)
    ref,             \* the reference LFU cache
    refRes           \* what the reference cache answered to the last get

vars == <<capacity, map, frequencies, panicked, op, pre, touch, lastIns,
          gone, lostFreq, ref, refRes>>

\* ------------------------------------------------- LinkedVector primitives
Handles(s) == {s[i].h : i \in 1..Len(s)}

\* Position of the node named by handle h, 0 when h names no node.
Pos(s, h) ==
    IF \E i \in 1..Len(s) : s[i].h = h
    THEN CHOOSE i \in 1..Len(s) : s[i].h = h
    ELSE 0

\* The handle handed out by the next push/insert on s.
NewHandle(s) ==
    CHOOSE n \in 1..(Len(s) + 1) :
        /\ n \notin Handles(s)
        /\ \A m \in 1..(n - 1) : m \in Handles(s)

RemoveAt(s, i) == SubSeq(s, 1, i - 1) \o SubSeq(s, i + 1, Len(s))

\* Variant: the new node goes in front of position i (insert_before).
InsertBeforeCursor(s, i, x) ==
    SubSeq(s, 1, i - 1) \o <<x>> \o SubSeq(s, i, Len(s))

\* Variant: the new node goes to the end of the vector (push_back).
InsertAfterAtEnd(s, i, x) == Append(s, x)

InsertAfter(s, i, x) == SubSeq(s, 1, i) \o <<x>> \o SubSeq(s, i + 1, Len(s))

\* Variant: the node goes in front of the last node.
PushBackBeforeLast(s, x) ==
    IF s = <<>> THEN <<x>>
    ELSE SubSeq(s, 1, Len(s) - 1) \o <<x, s[Len(s)]>>

\* Variant: the node goes to the front (push_front).
PushBackAtFront(s, x) == <<x>> \o s

PushBack(s, x) == Append(s, x)

\* Variant: the node is taken from the back (pop_back).
PopBack(s) == [node |-> s[Len(s)], rest |-> SubSeq(s, 1, Len(s) - 1)]

\* pop_front on a vector that is not empty: the node and what is left.
PopFront(s) == [node |-> Head(s), rest |-> Tail(s)]

\* Variant: the node goes to the back (push_back).
PushFrontAtBack(s, x) == Append(s, x)

PushFront(s, x) == <<x>> \o s

\* Variant: the record stays in the map.
RestrictNone(f, S) == f

Restrict(f, S) == [x \in S |-> f[x]]

\* Variant: the record is built with a fixed value, not the one given.
NewValueDefault(value) == [value |-> 1, hfreq |-> NoNode, hpos |-> NoNode]

\* Value::new
NewValue(value) == [value |-> value, hfreq |-> NoNode, hpos |-> NoNode]

\* ------------------------------------------------------------- incr_freq
\* Variant: the former queue is left in place when it is empty.
PurgeFormerNever(freq_qs, i) == freq_qs

\* Variant: an empty queue of frequency 1 is left in place.
PurgeFormerKeepFloor(freq_qs, i) ==
    IF freq_qs[i].keys = <<>> /\ freq_qs[i].freq /= 1
    THEN RemoveAt(freq_qs, i)
    ELSE freq_qs

\* The queue is purged after the key has been placed (lines 169-174).
PurgeFormer(freq_qs, i) ==
    IF freq_qs[i].keys = <<>> THEN RemoveAt(freq_qs, i) ELSE freq_qs

\* Variant: the following queue is never taken, a new one is made.
NextIsTargetNever(freq_qs, i, freq) == FALSE

\* Variant: any following queue is taken, whatever its frequency.
NextIsTargetAnyNext(freq_qs, i, freq) == i < Len(freq_qs)

\* Does the queue after position i exist and hold frequency freq + 1?
NextIsTarget(freq_qs, i, freq) ==
    i < Len(freq_qs) /\ freq_qs[i + 1].freq = freq + 1

incr_freq(freq_qs, vrec) ==
    LET i == Pos(freq_qs, vrec.hfreq)
        p == IF i = 0 THEN 0 ELSE Pos(freq_qs[i].keys, vrec.hpos)
    IN  IF i = 0 \/ p = 0
        THEN [freq_qs |-> freq_qs, vrec |-> vrec, ok |-> FALSE]
        ELSE
        LET freq == freq_qs[i].freq
            key  == freq_qs[i].keys[p].key
            q1   == [freq_qs EXCEPT ![i].keys = RemoveAt(@, p)]
        IN  IF NextIsTarget(q1, i, freq)
            THEN LET hp == NewHandle(q1[i + 1].keys)
                     q2 == [q1 EXCEPT ![i + 1].keys =
                                PushBack(@, [h |-> hp, key |-> key])]
                 IN  [freq_qs |-> PurgeFormer(q2, i),
                      vrec    |-> [vrec EXCEPT !.hfreq = q1[i + 1].h,
                                               !.hpos  = hp],
                      ok      |-> TRUE]
            ELSE LET hp   == NewHandle(<<>>)
                     hb   == NewHandle(q1)
                     newq == [h |-> hb, freq |-> freq + 1,
                              keys |-> <<[h |-> hp, key |-> key]>>]
                     q2   == InsertAfter(q1, i, newq)
                 IN  [freq_qs |-> PurgeFormer(q2, i),
                      vrec    |-> [vrec EXCEPT !.hfreq = hb, !.hpos = hp],
                      ok      |-> TRUE]

\* ------------------------------------------------------------ remove_lfu
\* Variant: the first queue is dropped whenever it is empty.
DropHeadAnyFreq(queue) == queue.keys = <<>>

\* Is the first queue dropped once its front key has been popped?
DropHead(queue) == queue.freq /= 1 /\ queue.keys = <<>>

remove_lfu(freq_qs, m) ==
    IF freq_qs = <<>>
    THEN [freq_qs |-> freq_qs, map |-> m, victim |-> NoKey,
          head |-> FALSE, popped |-> FALSE]
    ELSE
    LET popped == freq_qs[1].keys /= <<>>
        front  == PopFront(freq_qs[1].keys)
        key    == IF popped THEN front.node.key ELSE NoKey
        m1     == IF popped THEN Restrict(m, DOMAIN m \ {key}) ELSE m
        q1     == IF popped THEN [freq_qs EXCEPT ![1].keys = front.rest]
                            ELSE freq_qs
    IN  [freq_qs |-> IF DropHead(q1[1]) THEN Tail(q1) ELSE q1,
         map     |-> m1,
         victim  |-> key,
         head    |-> TRUE,
         popped  |-> popped]

\* ---------------------------------------------------------------- insert
\* Variant: a queue of frequency 1 is pushed on every new key.
WithFreq1AlwaysNew(freq_qs) ==
    PushFront(freq_qs, [h |-> NewHandle(freq_qs), freq |-> 1, keys |-> <<>>])

\* Variant: the first queue is taken whatever its frequency.
WithFreq1AnyHead(freq_qs) ==
    IF freq_qs /= <<>>
    THEN freq_qs
    ELSE PushFront(freq_qs, [h |-> NewHandle(freq_qs), freq |-> 1,
                             keys |-> <<>>])

\* The handle of the queue with frequency 1 (lines 90-96): the ledger with
\* that queue at its head.
WithFreq1(freq_qs) ==
    IF freq_qs /= <<>> /\ freq_qs[1].freq = 1
    THEN freq_qs
    ELSE PushFront(freq_qs, [h |-> NewHandle(freq_qs), freq |-> 1,
                             keys |-> <<>>])

\* Variant: every new key counts the cache as full.
IsFullAlways(m, cap) == TRUE

\* Variant: the cache counts as full one entry early.
IsFullEarly(m, cap) == Cardinality(DOMAIN m) + 1 >= cap

\* Variant: the test is len > capacity.
IsFullStrict(m, cap) == Cardinality(DOMAIN m) > cap

\* Is the cache full (line 86)?
IsFull(m, cap) == Cardinality(DOMAIN m) >= cap

\* Variant: capacity 0 is not told apart.
IsDisabledNever(cap) == FALSE

\* A cache of capacity 0 stores nothing (line 78).
IsDisabled(cap) == cap = 0

\* Variant: the stored value is kept.
OverwriteKeepOld(vrec, value) == vrec

\* The key already exists: update the value (line 82).
Overwrite(vrec, value) == [vrec EXCEPT !.value = value]

NoEviction(freq_qs, m) ==
    [freq_qs |-> freq_qs, map |-> m, victim |-> NoKey,
     head |-> TRUE, popped |-> FALSE]

\* Variant: the capacity is tested before the key is looked up, so that an
\* overwrite on a full cache evicts as well.
insert_evict_first(cap, m, freq_qs, key, value) ==
    IF IsDisabled(cap)
    THEN [map |-> m, freq_qs |-> freq_qs, ok |-> TRUE, hit |-> FALSE,
          evict |-> FALSE, rm |-> NoEviction(freq_qs, m)]
    ELSE LET full == IsFull(m, cap)
             rm   == IF full THEN remove_lfu(freq_qs, m)
                             ELSE NoEviction(freq_qs, m)
         IN  IF key \in DOMAIN rm.map
             THEN LET r == incr_freq(rm.freq_qs,
                                     Overwrite(rm.map[key], value))
                  IN  [map |-> [rm.map EXCEPT ![key] = r.vrec],
                       freq_qs |-> r.freq_qs, ok |-> r.ok, hit |-> TRUE,
                       evict |-> full, rm |-> rm]
             ELSE LET q1   == WithFreq1(rm.freq_qs)
                      hpos == NewHandle(q1[1].keys)
                      vrec == [NewValue(value) EXCEPT !.hfreq = q1[1].h,
                                                      !.hpos  = hpos]
                      q2   == [q1 EXCEPT ![1].keys =
                                   PushBack(@, [h |-> hpos, key |-> key])]
                  IN  [map |-> [k \in DOMAIN rm.map \cup {key} |->
                                   IF k = key THEN vrec ELSE rm.map[k]],
                       freq_qs |-> q2, ok |-> TRUE, hit |-> FALSE,
                       evict |-> full, rm |-> rm]

\* Variant: a new key is added first and the eviction runs afterwards.
insert_evict_after(cap, m, freq_qs, key, value) ==
    IF IsDisabled(cap)
    THEN [map |-> m, freq_qs |-> freq_qs, ok |-> TRUE, hit |-> FALSE,
          evict |-> FALSE, rm |-> NoEviction(freq_qs, m)]
    ELSE IF key \in DOMAIN m
    THEN LET r == incr_freq(freq_qs, Overwrite(m[key], value))
         IN  [map |-> [m EXCEPT ![key] = r.vrec], freq_qs |-> r.freq_qs,
              ok |-> r.ok, hit |-> TRUE,
              evict |-> FALSE, rm |-> NoEviction(freq_qs, m)]
    ELSE LET full == IsFull(m, cap)
             q1   == WithFreq1(freq_qs)
             hpos == NewHandle(q1[1].keys)
             vrec == [NewValue(value) EXCEPT !.hfreq = q1[1].h,
                                             !.hpos  = hpos]
             q2   == [q1 EXCEPT ![1].keys =
                          PushBack(@, [h |-> hpos, key |-> key])]
             m2   == [k \in DOMAIN m \cup {key} |->
                         IF k = key THEN vrec ELSE m[k]]
             rm   == IF full THEN remove_lfu(q2, m2) ELSE NoEviction(q2, m2)
         IN  [map |-> rm.map, freq_qs |-> rm.freq_qs, ok |-> TRUE,
              hit |-> FALSE, evict |-> full, rm |-> rm]

insert(cap, m, freq_qs, key, value) ==
    IF IsDisabled(cap)
    THEN [map |-> m, freq_qs |-> freq_qs, ok |-> TRUE, hit |-> FALSE,
          evict |-> FALSE, rm |-> NoEviction(freq_qs, m)]
    ELSE IF key \in DOMAIN m
    THEN LET r == incr_freq(freq_qs, Overwrite(m[key], value))
         IN  [map |-> [m EXCEPT ![key] = r.vrec], freq_qs |-> r.freq_qs,
              ok |-> r.ok, hit |-> TRUE,
              evict |-> FALSE, rm |-> NoEviction(freq_qs, m)]
    ELSE LET full    == IsFull(m, cap)
             rm      == IF full THEN remove_lfu(freq_qs, m)
                                ELSE NoEviction(freq_qs, m)
             q1      == WithFreq1(rm.freq_qs)
             hfreq_1 == q1[1].h
             hpos    == NewHandle(q1[1].keys)
             vrec    == [NewValue(value) EXCEPT !.hfreq = hfreq_1,
                                                !.hpos  = hpos]
             q2      == [q1 EXCEPT ![1].keys =
                             PushBack(@, [h |-> hpos, key |-> key])]
         IN  [map |-> [k \in DOMAIN rm.map \cup {key} |->
                          IF k = key THEN vrec ELSE rm.map[k]],
              freq_qs |-> q2, ok |-> TRUE, hit |-> FALSE,
              evict |-> full, rm |-> rm]

\* ------------------------------------------------------------------- get
\* Variant: a hit stores the value it returns anew, as a fixed value.
get_hit_rewrites(m, freq_qs, key) ==
    IF key \notin DOMAIN m
    THEN [map |-> m, freq_qs |-> freq_qs, ok |-> TRUE, result |-> Miss]
    ELSE LET r == incr_freq(freq_qs, Overwrite(m[key], 1))
         IN  [map |-> [m EXCEPT ![key] = r.vrec], freq_qs |-> r.freq_qs,
              ok |-> r.ok, result |-> r.vrec.value]

\* Variant: a miss makes sure the queue of frequency 1 exists.
get_miss_prepares(m, freq_qs, key) ==
    IF key \notin DOMAIN m
    THEN [map |-> m, freq_qs |-> WithFreq1(freq_qs), ok |-> TRUE,
          result |-> Miss]
    ELSE LET r == incr_freq(freq_qs, m[key])
         IN  [map |-> [m EXCEPT ![key] = r.vrec], freq_qs |-> r.freq_qs,
              ok |-> r.ok, result |-> r.vrec.value]

get(m, freq_qs, key) ==
    IF key \notin DOMAIN m
    THEN [map |-> m, freq_qs |-> freq_qs, ok |-> TRUE, result |-> Miss]
    ELSE LET r == incr_freq(freq_qs, m[key])
         IN  [map |-> [m EXCEPT ![key] = r.vrec], freq_qs |-> r.freq_qs,
              ok |-> r.ok, result |-> r.vrec.value]

\* ------------------------------------------------------------ navigation
\* The queues a call goes to, in the order of the calls on the ledger and
\* its cursor: `at` is the place of the queue in the ledger at that moment,
\* `nodes` the number of key nodes taken out of or put into a queue there.
Visit(at, nodes) == [at |-> at, nodes |-> nodes]

\* Variant: the queue of the key is looked for from the front of the ledger.
incr_freq_seen_scan(freq_qs, vrec) ==
    LET i == Pos(freq_qs, vrec.hfreq)
    IN  [n \in 1..i |-> Visit(n, IF n = i THEN 2 ELSE 0)]

\* incr_freq: cursor_mut(vrec.hfreq) and remove(vrec.hpos) (lines 148-153),
\* move_next and, on a match, push_back (155-158), else move_to(hqueue)
\* and insert_after of a queue that holds the key (163-167), then
\* move_to(hqueue) and the purge (169-174).
incr_freq_seen(freq_qs, vrec) ==
    LET i == Pos(freq_qs, vrec.hfreq)
    IN  IF i = 0 THEN <<>>
        ELSE LET target == NextIsTarget(freq_qs, i, freq_qs[i].freq)
                 next   == IF i < Len(freq_qs)
                           THEN <<Visit(i + 1, IF target THEN 1 ELSE 0)>>
                           ELSE <<>>
                 fresh  == IF target THEN <<>> ELSE <<Visit(i, 1)>>
             IN  <<Visit(i, 1)>> \o next \o fresh \o <<Visit(i, 0)>>

\* remove_lfu: front_node and get_mut with pop_front (lines 127-134).
remove_lfu_seen(freq_qs) ==
    IF freq_qs = <<>> THEN <<>>
    ELSE <<Visit(1, IF freq_qs[1].keys /= <<>> THEN 1 ELSE 0)>>

\* insert: nothing at capacity 0; incr_freq for a cached key; else
\* remove_lfu when full, front() (line 91), and get_mut(hfreq_1) with
\* push_back (lines 99-105).
insert_seen(cap, m, freq_qs, key) ==
    IF IsDisabled(cap) THEN <<>>
    ELSE IF key \in DOMAIN m THEN incr_freq_seen(freq_qs, m[key])
    ELSE LET full == IsFull(m, cap)
             rm   == IF full THEN remove_lfu(freq_qs, m)
                             ELSE NoEviction(freq_qs, m)
             q1   == WithFreq1(rm.freq_qs)
         IN  (IF full THEN remove_lfu_seen(freq_qs) ELSE <<>>)
                 \o (IF rm.freq_qs /= <<>> THEN <<Visit(1, 0)>> ELSE <<>>)
                 \o <<Visit(Pos(q1, q1[1].h), 1)>>

\* get: incr_freq on a hit, nothing on a miss.
get_seen(m, freq_qs, key) ==
    IF key \notin DOMAIN m THEN <<>> ELSE incr_freq_seen(freq_qs, m[key])

\* ------------------------------------------------- the reference LFU cache
\* For each key a value and an access count, and the keys in the order of
\* their last-touch stamps, oldest first (stamps are only ever compared, so
\* their order is all that is kept).  On a new-key insert at capacity the
\* key with the smallest (count, stamp) pair is evicted.
Without(order, key) == SelectSeq(order, LAMBDA x : x /= key)

Rank(order, key) == Pos([i \in 1..Len(order) |-> [h |-> order[i]]], key)

RefLess(r, a, b) ==
    \/ r.data[a].count < r.data[b].count
    \/ /\ r.data[a].count = r.data[b].count
       /\ Rank(r.order, a) < Rank(r.order, b)

RefVictim(r) ==
    CHOOSE k \in DOMAIN r.data :
        \A j \in DOMAIN r.data \ {k} : RefLess(r, k, j)

RefInsert(cap, r, key, value) ==
    IF cap = 0 THEN r
    ELSE IF key \in DOMAIN r.data
    THEN [data  |-> [r.data EXCEPT ![key] =
                        [value |-> value, count |-> @.count + 1]],
          order |-> Append(Without(r.order, key), key)]
    ELSE LET out  == IF Cardinality(DOMAIN r.data) >= cap
                     THEN {RefVictim(r)} ELSE {}
             kept == DOMAIN r.data \ out
         IN  [data  |-> [k \in kept \cup {key} |->
                            IF k = key THEN [value |-> value, count |-> 1]
                            ELSE r.data[k]],
              order |-> Append(SelectSeq(r.order, LAMBDA x : x \in kept),
                               key)]

RefGet(r, key) ==
    IF key \in DOMAIN r.data
    THEN [data  |-> [r.data EXCEPT ![key].count = @ + 1],
          order |-> Append(Without(r.order, key), key)]
    ELSE r

RefAnswer(r, key) ==
    IF key \in DOMAIN r.data THEN r.data[key].value ELSE Miss

\* ----------------------------------------------------------- state machine
Snapshot == [map |-> map, frequencies |-> frequencies, touch |-> touch,
             lastIns |-> lastIns, lostFreq |-> lostFreq]

EmptyMap == [k \in {} |-> 0]

\* LfuCache::new(c)
Init ==
    /\ capacity \in 0..MaxCap
    /\ map = EmptyMap
    /\ frequencies = <<>>
    /\ panicked = FALSE
    /\ op = [name |-> "new", key |-> NoKey, value |-> Miss, result |-> Miss,
             hit |-> FALSE, evict |-> FALSE, victim |-> NoKey,
             head |-> TRUE, popped |-> FALSE, after_rm |-> <<>>,
             seen |-> <<>>]
    /\ pre = [map |-> EmptyMap, frequencies |-> <<>>, touch |-> <<>>,
              lastIns |-> [k \in Keys |-> Miss],
              lostFreq |-> [k \in Keys |-> 0]]
    /\ touch = <<>>
    /\ lastIns = [k \in Keys |-> Miss]
    /\ gone = {}
    /\ lostFreq = [k \in Keys |-> 0]
    /\ ref = [data |-> EmptyMap, order |-> <<>>]
    /\ refRes = Miss

\* The order of last touches after a call on `key` that left m cached.
Touched(m, key) ==
    LET rest == SelectSeq(touch, LAMBDA x : x \in DOMAIN m /\ x /= key)
    IN  IF key \in DOMAIN m THEN Append(rest, key) ELSE rest

\* The value of the most recent insert of every key that m caches, after
\* insert(key, value); the entry of a key is dropped when it is evicted.
Recorded(m, key, value) ==
    [k \in Keys |-> IF k \notin DOMAIN m THEN Miss
                    ELSE IF k = key THEN value
                    ELSE lastIns[k]]

\* The frequency of a cached key: the count of the queue its record names
\* (0 when the handle names no queue).
KeyFreq(m, freq_qs, k) ==
    LET i == Pos(freq_qs, m[k].hfreq)
    IN  IF i = 0 THEN 0 ELSE freq_qs[i].freq

\* The frequency every key had when it was evicted, after a call that left
\* m cached: 0 for a cached key and for a key never evicted.
Lost(m) ==
    [k \in Keys |-> IF k \in DOMAIN m THEN 0
                    ELSE IF k \in DOMAIN map
                         THEN KeyFreq(map, frequencies, k)
                    ELSE lostFreq[k]]

\* The call does not raise a frequency beyond MaxFreq.
WithinFreq(key) ==
    key \in DOMAIN map => KeyFreq(map, frequencies, key) < MaxFreq

Insert(key, value) ==
    /\ ~panicked
    /\ capacity = 0 \/ WithinFreq(key)
    /\ \E r \in {insert(capacity, map, frequencies, key, value)} :
           /\ map' = r.map
           /\ frequencies' = r.freq_qs
           /\ panicked' = ~r.ok
           /\ op' = [name |-> "insert", key |-> key, value |-> value,
                     result |-> Miss, hit |-> r.hit, evict |-> r.evict,
                     victim |-> r.rm.victim, head |-> r.rm.head,
                     popped |-> r.rm.popped, after_rm |-> r.rm.freq_qs,
                     seen |-> insert_seen(capacity, map, frequencies, key)]
           /\ touch' = Touched(r.map, key)
           /\ lastIns' = Recorded(r.map, key, value)
           /\ gone' = (gone \cup (DOMAIN map \ DOMAIN r.map)) \ DOMAIN r.map
           /\ lostFreq' = Lost(r.map)
    /\ pre' = Snapshot
    /\ ref' = RefInsert(capacity, ref, key, value)
    /\ refRes' = Miss
    /\ UNCHANGED capacity

Get(key) ==
    /\ ~panicked
    /\ WithinFreq(key)
    /\ \E r \in {get(map, frequencies, key)} :
           /\ map' = r.map
           /\ frequencies' = r.freq_qs
           /\ panicked' = ~r.ok
           /\ op' = [name |-> "get", key |-> key, value |-> Miss,
                     result |-> r.result, hit |-> key \in DOMAIN map,
                     evict |-> FALSE, victim |-> NoKey, head |-> TRUE,
                     popped |-> FALSE, after_rm |-> frequencies,
                     seen |-> get_seen(map, frequencies, key)]
           /\ touch' = Touched(r.map, key)
    /\ pre' = Snapshot
    /\ ref' = RefGet(ref, key)
    /\ refRes' = RefAnswer(ref, key)
    /\ UNCHANGED <<capacity, lastIns, gone, lostFreq>>

Next ==
    \/ \E key \in Keys, value \in Values : Insert(key, value)
    \/ \E key \in Keys : Get(key)

Spec == Init /\ [][Next]_vars

\* ------------------------------------------------------------ observations
Cached(m) == DOMAIN m

PreFreq(k) == KeyFreq(pre.map, pre.frequencies, k)
NowFreq(k) == KeyFreq(map, frequencies, k)

\* The last call was an insert of a key that was not cached, made on a
\* cache that held exactly `capacity` entries (capacity >= 1).
InsertAtCapacity ==
    /\ op.name = "insert"
    /\ capacity >= 1
    /\ op.key \notin Cached(pre.map)
    /\ Cardinality(Cached(pre.map)) = capacity

Evicted == Cached(pre.map) \ Cached(map)

\* ------------------------------------------------------------------ claims

\* C1: for every capacity and every sequence of insert and get calls, the
\* number of cached entries is at most the capacity after every call.
C1_CapacityInvariant == Cardinality(Cached(map)) <= capacity

\* An insert that had to evict has run on a cache of capacity 2, which is
\* full again.
C1_Witness ==
    /\ capacity = 2
    /\ op.name = "insert" /\ op.evict
    /\ Cardinality(Cached(map)) = capacity

\* C2: when a key that is not cached is inserted into a cache holding
\* exactly `capacity` entries, exactly one entry is evicted and its
\* frequency is less than or equal to that of every entry cached then.
C2_EvictsMinFrequency ==
    InsertAtCapacity =>
        /\ Evicted = {op.victim}
        /\ \A k \in Cached(pre.map) : PreFreq(op.victim) <= PreFreq(k)

\* An eviction out of a cache whose two entries had different frequencies.
C2_Witness ==
    /\ InsertAtCapacity
    /\ op.victim \in Cached(pre.map)
    /\ \E k \in Cached(pre.map) : PreFreq(op.victim) < PreFreq(k)

\* C3: when an eviction happens and several cached keys share the minimum
\* frequency, the evicted key is the one of them that was touched longest
\* ago (inserted as a new key, hit by a get, or overwritten).
C3_EvictsOldestOfTies ==
    (op.name = "insert" /\ op.evict /\ op.victim \in Cached(pre.map)) =>
        \A k \in Cached(pre.map) :
            PreFreq(k) = PreFreq(op.victim) =>
                Rank(pre.touch, op.victim) <= Rank(pre.touch, k)

\* An eviction out of two keys that both had frequency 2 or more, so that
\* the order of their last touches comes from gets or overwrites.
C3_Witness ==
    /\ op.name = "insert" /\ op.evict
    /\ op.victim \in Cached(pre.map)
    /\ PreFreq(op.victim) >= 2
    /\ \E k \in Cached(pre.map) \ {op.victim} :
           PreFreq(k) = PreFreq(op.victim)

\* C4: every get returns what the reference LFU cache returns, the cache
\* that keeps a value, an access count and a last-touch stamp per key and
\* evicts the smallest (count, stamp) pair on a new-key insert at capacity.
C4_GetMatchesReference == op.name = "get" => op.result = refRes

\* A get that misses a key evicted earlier, on a cache that still holds
\* entries: the answer depends on which key was evicted.
C4_Witness ==
    /\ op.name = "get" /\ ~op.hit
    /\ op.key \in gone
    /\ Cached(map) /= {}

\* C5: while a key stays cached, a get that hits it and an insert that
\* overwrites it raise its frequency by exactly 1, and no other call
\* changes its frequency (so the frequency never decreases).
C5_FrequencySteps ==
    \A k \in Cached(pre.map) \cap Cached(map) :
        NowFreq(k) = IF op.key = k /\ op.name \in {"insert", "get"}
                     THEN PreFreq(k) + 1
                     ELSE PreFreq(k)

\* A get hit raises a key from frequency 1 to 2 while another cached key
\* sits at frequency 3 or more and stays there.
C5_Witness ==
    /\ op.name = "get" /\ op.hit
    /\ PreFreq(op.key) = 1
    /\ \E k \in Cached(map) \ {op.key} : PreFreq(k) >= 3 /\ NowFreq(k) >= 3

\* C6: insert(k, v) on a key cached with frequency f replaces its value by
\* v and leaves k cached with frequency f + 1 (not reset to 1).
C6_OverwriteIsAccess ==
    (op.name = "insert" /\ op.key \in Cached(pre.map) /\ capacity >= 1) =>
        /\ op.key \in Cached(map)
        /\ map[op.key].value = op.value
        /\ NowFreq(op.key) = PreFreq(op.key) + 1

\* An overwrite that changes the value of a key of frequency 2 or more.
C6_Witness ==
    /\ op.name = "insert" /\ op.key \in Cached(pre.map)
    /\ pre.map[op.key].value /= op.value
    /\ PreFreq(op.key) >= 2

\* C7: a cache built with new(0) never holds an entry or a frequency
\* queue, every insert leaves its state unchanged and every get misses.
C7_ZeroCapacity ==
    capacity = 0 =>
        /\ map = EmptyMap
        /\ frequencies = <<>>
        /\ op.name = "insert" =>
               map = pre.map /\ frequencies = pre.frequencies
        /\ op.name = "get" => op.result = Miss

\* On a cache of capacity 0, a get has answered.
C7_Witness ==
    /\ capacity = 0
    /\ op.name = "get"
    /\ op.result = Miss

\* C8: get(k) on a key that is not cached returns miss and leaves the
\* keys, values, frequencies, queues and the order inside them unchanged.
C8_MissChangesNothing ==
    (op.name = "get" /\ op.key \notin Cached(pre.map)) =>
        /\ op.result = Miss
        /\ map = pre.map
        /\ frequencies = pre.frequencies

\* A get of a key that was inserted and evicted, on a cache with entries.
C8_Witness ==
    /\ op.name = "get" /\ op.key \notin Cached(pre.map)
    /\ op.key \in gone
    /\ frequencies /= <<>>

\* C9: get(k) on a cached key returns the value of the most recent
\* insert(k, _), and a get changes the value stored for no key.
C9_GetReturnsLastInserted ==
    op.name = "get" =>
        /\ op.key \in Cached(pre.map) =>
               /\ pre.lastIns[op.key] /= Miss
               /\ op.result = pre.lastIns[op.key]
        /\ Cached(map) = Cached(pre.map)
        /\ \A k \in Cached(map) : map[k].value = pre.map[k].value

\* A get hit on a key that was accessed before, next to a cached key
\* that holds a different value.
C9_Witness ==
    /\ op.name = "get" /\ op.key \in Cached(pre.map)
    /\ PreFreq(op.key) >= 2
    /\ \E k \in Cached(map) : map[k].value /= op.result

\* C10: with capacity at least 1, right after insert(k, v) the key k is
\* cached with value v; the key being inserted is never the victim.
C10_InsertedKeyIsCached ==
    (op.name = "insert" /\ capacity >= 1) =>
        /\ op.key \in Cached(map)
        /\ map[op.key].value = op.value
        /\ op.victim /= op.key

\* An insert that evicted although every other cached key has a higher
\* frequency than the new key.
C10_Witness ==
    /\ op.name = "insert" /\ op.evict
    /\ op.key \notin Cached(pre.map)
    /\ \A k \in Cached(pre.map) : PreFreq(k) >= 2
    /\ op.victim \in Cached(pre.map)

\* ----------------------------------------------- observations, continued
\* The keys of a queue, front first.
QueueKeys(queue) == [i \in 1..Len(queue.keys) |-> queue.keys[i].key]

\* The keys held at frequency f, in the order of the ledger.
RECURSIVE KeysAt(_, _)
KeysAt(freq_qs, f) ==
    IF freq_qs = <<>> THEN <<>>
    ELSE (IF Head(freq_qs).freq = f THEN QueueKeys(Head(freq_qs)) ELSE <<>>)
             \o KeysAt(Tail(freq_qs), f)

Freqs(freq_qs) == {freq_qs[i].freq : i \in 1..Len(freq_qs)}

\* The keys of S stand in the same order in every queue before and after
\* the last call.
OrderKept(S) ==
    \A f \in Freqs(pre.frequencies) \cup Freqs(frequencies) :
        SelectSeq(KeysAt(pre.frequencies, f), LAMBDA x : x \in S)
            = SelectSeq(KeysAt(frequencies, f), LAMBDA x : x \in S)

\* The keys cached before and after the last call.
Survivors == Cached(pre.map) \cap Cached(map)

\* Every key of S has the value and the frequency it had before the call.
Untouched(S) ==
    \A k \in S : /\ map[k].value = pre.map[k].value
                 /\ NowFreq(k) = PreFreq(k)

InsertNew ==
    op.name = "insert" /\ capacity >= 1 /\ op.key \notin Cached(pre.map)

InsertOld ==
    op.name = "insert" /\ capacity >= 1 /\ op.key \in Cached(pre.map)

C12_OverwriteFrame ==
    InsertOld =>
        /\ Cached(map) = Cached(pre.map)
        /\ Evicted = {}
        /\ Untouched(Cached(map) \ {op.key})

\* An overwrite on a cache of capacity 2 that holds two entries.
C12_Witness ==
    /\ InsertOld
    /\ capacity = 2
    /\ Cardinality(Cached(pre.map)) = capacity

\* C13: a key inserted while not cached enters with frequency exactly 1,
\* also when it was cached earlier with a higher frequency and evicted.
C13_NewKeyFrequencyOne == InsertNew => NowFreq(op.key) = 1

\* The inserted key had been evicted at frequency 2 or more.
C13_Witness ==
    /\ InsertNew
    /\ pre.lostFreq[op.key] >= 2
    /\ NowFreq(op.key) = 1

\* C14: after every insert and get the ledger is sorted strictly ascending
\* by frequency from head to tail (no frequency twice, gaps allowed) and
\* every frequency is at least 1.
C14_LedgerStrictlyAscending ==
    /\ \A i \in 1..Len(frequencies) : frequencies[i].freq >= 1
    /\ \A i, j \in 1..Len(frequencies) :
           i < j => frequencies[i].freq < frequencies[j].freq

\* After a promotion the ledger holds the queues of frequency 1 and 3 and
\* none of frequency 2.
C14_Witness ==
    /\ op.name \in {"insert", "get"} /\ op.hit
    /\ Len(frequencies) = 2
    /\ frequencies[1].freq = 1 /\ frequencies[2].freq = 3

\* C15: after every insert and get on a cache that is not empty, the first
\* queue has the minimum frequency of all cached keys and holds a cached
\* key of that frequency.
C15_HeadIsMinimum ==
    Cached(map) /= {} =>
        /\ frequencies /= <<>>
        /\ \A k \in Cached(map) : frequencies[1].freq <= NowFreq(k)
        /\ \E k \in Cached(map) :
               /\ NowFreq(k) = frequencies[1].freq
               /\ \E p \in 1..Len(frequencies[1].keys) :
                      frequencies[1].keys[p].key = k

\* A promotion took the only key out of the first queue, which held the
\* minimum: the first queue is now one of a higher frequency.
C15_Witness ==
    /\ op.name \in {"insert", "get"} /\ op.hit
    /\ Len(pre.frequencies) = 2
    /\ Len(pre.frequencies[1].keys) = 1
    /\ pre.frequencies[1].keys[1].key = op.key
    /\ pre.frequencies[2].freq > pre.frequencies[1].freq + 1
    /\ frequencies[1].freq = pre.frequencies[1].freq + 1

\* C16: when insert or get returns, no queue of the ledger is empty, also
\* when the insert evicted the last key of the first queue of frequency 1.
C16_NoEmptyQueue ==
    \A i \in 1..Len(frequencies) : frequencies[i].keys /= <<>>

\* An insert evicted the only key of the first queue, of frequency 1, while
\* another queue of a higher frequency exists.
C16_Witness ==
    /\ op.name = "insert" /\ op.evict
    /\ Len(pre.frequencies) = 2
    /\ pre.frequencies[1].freq = 1
    /\ Len(pre.frequencies[1].keys) = 1
    /\ op.victim = pre.frequencies[1].keys[1].key

\* The last call ran remove_lfu; op.after_rm is the ledger it left.
Evicting == op.name = "insert" /\ op.evict /\ pre.frequencies /= <<>>

Promoted == op.name \in {"insert", "get"} /\ op.hit

\* Where the queue of op.key stood before the call, its frequency, and
\* whether the queue behind it held that frequency plus one.
FormerAt == Pos(pre.frequencies, pre.map[op.key].hfreq)
FormerFreq == pre.frequencies[FormerAt].freq
Reused ==
    /\ FormerAt < Len(pre.frequencies)
    /\ pre.frequencies[FormerAt + 1].freq = FormerFreq + 1

\* Where the queue of op.key stands after the call.
TargetAt == Pos(frequencies, map[op.key].hfreq)

\* C18: incr_freq puts the key at the back of the queue of frequency f+1
\* that directly follows the former queue: the following queue when it
\* holds f+1, else a new queue placed directly behind the former one,
\* before every queue of higher frequency; the queues before the former
\* one and behind the target are left as they were.
C18_PromotedBehindFormer ==
    Promoted =>
        LET i     == FormerAt
            j     == TargetAt
            after == IF Reused THEN i + 2 ELSE i + 1
        IN  /\ i >= 1 /\ j \in {i, i + 1}
            /\ j = i + 1 => /\ frequencies[i].h = pre.frequencies[i].h
                            /\ frequencies[i].freq = FormerFreq
            /\ j = i => FormerFreq \notin Freqs(frequencies)
            /\ frequencies[j].freq = FormerFreq + 1
            /\ QueueKeys(frequencies[j])
                   = (IF Reused THEN QueueKeys(pre.frequencies[i + 1])
                                ELSE <<>>) \o <<op.key>>
            /\ Reused => frequencies[j].h = pre.frequencies[i + 1].h
            /\ SubSeq(frequencies, 1, i - 1)
                   = SubSeq(pre.frequencies, 1, i - 1)
            /\ SubSeq(frequencies, j + 1, Len(frequencies))
                   = SubSeq(pre.frequencies, after, Len(pre.frequencies))

\* A new queue was made although a queue of higher frequency followed.
C18_Witness ==
    /\ Promoted /\ ~Reused
    /\ FormerAt < Len(pre.frequencies)
    /\ TargetAt < Len(frequencies)
    /\ frequencies[TargetAt].freq < frequencies[TargetAt + 1].freq

\* The following queue was taken and holds the key behind the ones it had.
C18_WitnessReused ==
    /\ Promoted /\ Reused
    /\ Len(frequencies[TargetAt].keys) = 2

\* The former queue held op.key alone.
FormerSingle == Len(pre.frequencies[FormerAt].keys) = 1

PlacesOf(k) ==
    {pl \in (1..Len(frequencies)) \X (1..Cardinality(Keys)) :
        /\ pl[2] <= Len(frequencies[pl[1]].keys)
        /\ frequencies[pl[1]].keys[pl[2]].key = k}

\* C20: the map and the ledger agree after every call: every cached key
\* stands at exactly one place of the ledger, the one its two handles
\* name, so that no handle is dangling, and every key of the ledger is a
\* key of the map.
C20_IndexAgreesWithLedger ==
    /\ ~panicked
    /\ \A k \in Cached(map) :
           LET i == Pos(frequencies, map[k].hfreq)
           IN  /\ i /= 0
               /\ Cardinality({n \in 1..Len(frequencies) :
                                   frequencies[n].h = map[k].hfreq}) = 1
               /\ LET slots == frequencies[i].keys
                      p     == Pos(slots, map[k].hpos)
                  IN  /\ p /= 0
                      /\ Cardinality({n \in 1..Len(slots) :
                                          slots[n].h = map[k].hpos}) = 1
                      /\ PlacesOf(k) = {<<i, p>>}
    /\ \A k \in Keys \ Cached(map) : PlacesOf(k) = {}

\* An insert evicted a key and the new key took over both of its handles
\* while another key stayed in the same queue.
C20_Witness ==
    /\ op.name = "insert" /\ op.evict
    /\ op.victim \in Cached(pre.map)
    /\ map[op.key].hfreq = pre.map[op.victim].hfreq
    /\ map[op.key].hpos = pre.map[op.victim].hpos
    /\ \E k \in Survivors : map[k].hfreq = map[op.key].hfreq

\* C21: whenever insert calls remove_lfu the map is not empty, the ledger
\* has a first queue and that queue holds a key: the front key is popped
\* and exactly that key leaves the map; the branches of remove_lfu for a
\* missing or empty first queue are never taken.
C21_EvictionFindsVictim ==
    (op.name = "insert" /\ op.evict) =>
        /\ Cached(pre.map) /= {}
        /\ pre.frequencies /= <<>>
        /\ pre.frequencies[1].keys /= <<>>
        /\ op.head /\ op.popped
        /\ op.victim = pre.frequencies[1].keys[1].key
        /\ Cached(pre.map) \ Cached(map) = {op.victim}
        /\ Len(op.after_rm) <= Len(pre.frequencies)

\* remove_lfu ran on a first queue of two keys whose frequency is not 1.
C21_Witness ==
    /\ op.name = "insert" /\ op.evict /\ op.popped
    /\ pre.frequencies[1].freq >= 2
    /\ Len(pre.frequencies[1].keys) = 2

\* C22: after every call the keys of every queue stand in the order of
\* their last touch, the key touched longest ago at the front.
C22_QueuesInTouchOrder ==
    \A i \in 1..Len(frequencies) :
        LET here == {frequencies[i].keys[p].key :
                         p \in 1..Len(frequencies[i].keys)}
        IN  QueueKeys(frequencies[i])
                = SelectSeq(touch, LAMBDA x : x \in here)

\* The key touched longest ago was promoted into the queue of the other
\* key and stands behind it.
C22_Witness ==
    /\ Promoted /\ Reused
    /\ Len(pre.touch) = 2 /\ pre.touch[1] = op.key
    /\ QueueKeys(frequencies[TargetAt]) = <<pre.touch[2], op.key>>
    /\ touch = <<pre.touch[2], op.key>>

\* The first queue of the ledger had frequency 1 before the call.
HadFreq1 == pre.frequencies /= <<>> /\ pre.frequencies[1].freq = 1

\* C23: after insert of a key that was not cached, the first queue has
\* frequency 1 and the new key is its last key: a first queue that had
\* frequency 1 is the same queue still, its earlier keys (the evicted one
\* left out) in front of the new key; otherwise the queue is new, holds
\* the new key alone and stands before all the queues there were.
C23_NewKeyAtBackOfHead ==
    InsertNew =>
        /\ frequencies /= <<>>
        /\ frequencies[1].freq = 1
        /\ frequencies[1].keys /= <<>>
        /\ frequencies[1].keys[Len(frequencies[1].keys)].key = op.key
        /\ HadFreq1 =>
               /\ frequencies[1].h = pre.frequencies[1].h
               /\ QueueKeys(frequencies[1])
                      = SelectSeq(QueueKeys(pre.frequencies[1]),
                                  LAMBDA x : x /= op.victim) \o <<op.key>>
               /\ Tail(frequencies) = Tail(pre.frequencies)
        /\ ~HadFreq1 =>
               /\ QueueKeys(frequencies[1]) = <<op.key>>
               /\ frequencies[1].h \notin Handles(op.after_rm)
               /\ Tail(frequencies) = op.after_rm

\* A queue of frequency 1 was made in front of a queue that stayed.
C23_Witness ==
    /\ InsertNew /\ ~HadFreq1
    /\ pre.frequencies /= <<>>
    /\ Len(frequencies) = 2
    /\ frequencies[2].freq >= 2

\* A first queue of frequency 1 took the new key behind the key it had.
C23_WitnessReused ==
    /\ InsertNew /\ HadFreq1
    /\ Len(frequencies[1].keys) = 2

\* get found its key.
GetHit == op.name = "get" /\ op.hit

MaxVisits == 4
MaxNodes == 2

Places == {op.seen[n].at : n \in 1..Len(op.seen)}
Nodes(n) == op.seen[n].nodes
NodesHandled ==
    IF op.seen = <<>> THEN 0
    ELSE IF Len(op.seen) = 1 THEN Nodes(1)
    ELSE IF Len(op.seen) = 2 THEN Nodes(1) + Nodes(2)
    ELSE IF Len(op.seen) = 3 THEN Nodes(1) + Nodes(2) + Nodes(3)
    ELSE Nodes(1) + Nodes(2) + Nodes(3) + Nodes(4)

C25_WitnessEvict ==
    /\ op.name = "insert" /\ op.evict
    /\ Len(pre.frequencies) = 2
    /\ Places = {1}

====
